---- MODULE Spec2Model ----
(***************************************************************************)
(* A model of server_hard_drive_check.py: the command line script that     *)
(* indexes two directory trees (get_all_files_recursive), reconciles them  *)
(* by (basename, size) (compare_directories) and exits (__main__).         *)
(*                                                                         *)
(* Paths are sequences of character codes, so that os.path.basename and    *)
(* the string order used by sorted() are computed, not assumed.            *)
(* Library behaviour the script relies on is modelled from CPython 3.11:   *)
(* pathlib.Path.is_file()/is_dir() follow symbolic links, swallow only     *)
(* ENOENT/ENOTDIR/EBADF/ELOOP and re-raise every other OSError;            *)
(* Path.rglob('*') does not descend into symbolic links; argparse exits    *)
(* with status 2 on a usage error and 0 after --help.                      *)
(***************************************************************************)
EXTENDS Integers, Sequences, FiniteSets, TLC

(* ------------------------------ bounds --------------------------------- *)

\* most entries listed in one directory tree
MaxFiles == 3
\* file sizes range over 1..MaxSize
MaxSize == 2

(* --------------------------- program constants ------------------------- *)

\* the path separator os.path.basename splits on ('/')
Sep == 47
\* width of the progress bar
bar_width == 50

(* ------------------------------ inputs --------------------------------- *)

\* what argparse makes of the command line: a usage error, a request for
\* help, or the two paths and the verbose flag
CommandLines == {"bad", "help", "ok"}

Roots == {"hd", "server"}

\* "b", "a/b", "a.b": one basename in two directories, a second basename,
\* and a pair whose string order differs from its component-wise order
Paths == { <<98>>, <<97, 47, 98>>, <<97, 46, 98>> }

Sizes == 1..MaxSize

\* what a directory entry can be
Kinds == {"file", "dir", "symlink_file", "symlink_dir", "symlink_broken", "socket"}

\* how stat() on a regular file behaves: always succeeds, always fails with
\* EACCES (PermissionError), or fails now and then with EIO (OSError)
Access == {"ok", "EACCES", "transient"}

Entry(p, k, s, a) == [path |-> p, kind |-> k, size |-> s, acc |-> a]

RegularEntries == { Entry(p, "file", s, "ok") : p \in Paths, s \in Sizes }

AnyEntries ==
    { Entry(p, "file", s, "ok") : p \in Paths, s \in Sizes }
    \cup { Entry(p, "file", 1, a) : p \in Paths, a \in {"EACCES", "transient"} }
    \cup { Entry(p, k, 1, "ok") : p \in Paths,
                                 k \in Kinds \ {"file"} }

\* directory listings: sequences of at most MaxFiles entries with distinct paths
Listings(E) ==
    UNION { { t \in [1..n -> E] : \A i, j \in 1..n : i # j => t[i].path # t[j].path }
            : n \in 0..MaxFiles }

(* ------------------------- strings and paths --------------------------- *)

\* os.path.basename: what follows the last separator (the whole path if none)
basename(p) ==
    IF \E i \in 1..Len(p) : p[i] = Sep
    THEN LET i == CHOOSE k \in 1..Len(p) :
                      p[k] = Sep /\ \A m \in (k+1)..Len(p) : p[m] # Sep
         IN  SubSeq(p, i + 1, Len(p))
    ELSE p

\* PurePath.parent of a relative path: what precedes the last separator;
\* <<>> stands for '.'
parent(p) ==
    IF \E i \in 1..Len(p) : p[i] = Sep
    THEN LET i == CHOOSE k \in 1..Len(p) :
                      p[k] = Sep /\ \A m \in (k+1)..Len(p) : p[m] # Sep
         IN  SubSeq(p, 1, i - 1)
    ELSE << >>

\* Python's str < str: the first differing code point decides, a proper
\* prefix is smaller
StrLess(p, q) ==
    \E i \in 1..(Len(q)) :
        /\ \A k \in 1..(i-1) : k <= Len(p) /\ p[k] = q[k]
        /\ i - 1 <= Len(p)
        /\ (i = Len(p) + 1 \/ (i <= Len(p) /\ p[i] < q[i]))

\* Python's tuple < tuple on (path, size) items
ItemLess(x, y) ==
    \/ StrLess(x[1], y[1])
    \/ (x[1] = y[1] /\ x[2] < y[2])

\* insertion of one item into an ascending list, after its equals (stable)
RECURSIVE InsertSorted(_, _)
InsertSorted(x, s) ==
    IF s = << >> THEN << x >>
    ELSE IF ItemLess(x, Head(s)) THEN << x >> \o s
    ELSE << Head(s) >> \o InsertSorted(x, Tail(s))

\* a variant of sorted that leaves the items in the order it is given them
unsorted(s) == s

\* sorted(iterable): a new ascending list of the items
RECURSIVE sorted(_)
sorted(s) ==
    IF s = << >> THEN << >>
    ELSE InsertSorted(s[Len(s)], sorted(SubSeq(s, 1, Len(s) - 1)))

(* ------------------------------ dictionaries --------------------------- *)

\* a dict is the sequence of its (key, value) items in insertion order

DictKeys(d) == { d[i][1] : i \in 1..Len(d) }

\* d[k] = v: a present key keeps its place, a new key goes last
DictSet(d, k, v) ==
    IF k \in DictKeys(d)
    THEN [ i \in 1..Len(d) |-> IF d[i][1] = k THEN << k, v >> ELSE d[i] ]
    ELSE Append(d, << k, v >>)

(* ------------------------------ file system ---------------------------- *)

\* the entries of a listing whose parent directory is q, in listing order
RECURSIVE ChildrenOf(_, _)
ChildrenOf(t, q) ==
    IF t = << >> THEN << >>
    ELSE (IF parent(Head(t).path) = q THEN << Head(t) >> ELSE << >>)
         \o ChildrenOf(Tail(t), q)

\* the subdirectories a listing implies, in the order they are first met
RECURSIVE SubDirs(_, _)
SubDirs(t, seen) ==
    IF t = << >> THEN << >>
    ELSE LET q == parent(Head(t).path)
         IN  IF q = << >> \/ q \in seen
             THEN SubDirs(Tail(t), seen)
             ELSE << q >> \o SubDirs(Tail(t), seen \cup {q})

\* the root's own listing: its entries and its subdirectories, each
\* subdirectory where its first file stands in the listing
RECURSIVE RootLevel(_, _)
RootLevel(t, seen) ==
    IF t = << >> THEN << >>
    ELSE LET q == parent(Head(t).path)
         IN  IF q = << >> THEN << Head(t) >> \o RootLevel(Tail(t), seen)
             ELSE IF q \in seen THEN RootLevel(Tail(t), seen)
             ELSE << Entry(q, "dir", 1, "ok") >> \o RootLevel(Tail(t), seen \cup {q})

RECURSIVE Nested(_, _)
Nested(t, dirs) ==
    IF dirs = << >> THEN << >>
    ELSE ChildrenOf(t, Head(dirs)) \o Nested(t, Tail(dirs))

\* directory.rglob('*'): every entry below the root, the root's own
\* entries first, then each subdirectory's; symbolic links to directories
\* are yielded and not descended into
rglob(t) == RootLevel(t, {}) \o Nested(t, SubDirs(t, {}))

\* what one stat() of an entry can produce: "ok" or an errno
StatOutcomes(e) ==
    IF e.kind = "symlink_broken" THEN {"ENOENT"}
    ELSE IF e.kind # "file" THEN {"ok"}
    ELSE IF e.acc = "EACCES" THEN {"EACCES"}
    ELSE IF e.acc = "transient" THEN {"ok", "EIO"}
    ELSE {"ok"}

\* the exception class of an errno
ExceptionOf(o) == IF o = "EACCES" THEN "PermissionError" ELSE "OSError"

\* pathlib._ignore_error: the errnos is_file()/is_dir() turn into False
ignore_error(o) == o \in {"ENOENT", "ENOTDIR", "EBADF", "ELOOP"}

\* Path.is_file() given the outcome of its stat(): stat follows symbolic
\* links, so a link to a regular file is a regular file
is_file(e, o) ==
    IF o = "ok" THEN [raised |-> "none", value |-> e.kind \in {"file", "symlink_file"}]
    ELSE IF ignore_error(o) THEN [raised |-> "none", value |-> FALSE]
    ELSE [raised |-> ExceptionOf(o), value |-> FALSE]

\* Path.is_dir() given the outcome of its stat()
is_dir(e, o) ==
    IF o = "ok" THEN [raised |-> "none", value |-> e.kind \in {"dir", "symlink_dir"}]
    ELSE IF ignore_error(o) THEN [raised |-> "none", value |-> FALSE]
    ELSE [raised |-> ExceptionOf(o), value |-> FALSE]

\* os.path.exists / os.path.isdir of a root
exists(k) == k # "missing"
isdir(k) == k = "dir"

(* ------------------------------- state --------------------------------- *)

VARIABLES
    args,                   \* the command line: [kind, verbose]
    root_kind,              \* what each root path is: missing, file or dir
    tree,                   \* each root's directory listing
    pc,                     \* where the script stands
    exit_status,            \* << >> while running, << n >> once the process ended
    stdout,                 \* the lines printed so far
    stderr,                 \* what argparse and the interpreter wrote
    scan_root,              \* get_all_files_recursive: the root being scanned
    pos,                    \* position in the current loop
    total_files,
    processed_files,
    files_info,
    directories_processed,
    hard_drive_files,
    server_files,
    server_files_by_name,
    sorted_items,           \* sorted(hard_drive_files.items())
    missing_files,
    size_mismatch_files,
    identical_files,
    missing_file_details,
    mismatch_file_details

env == << args, root_kind, tree >>
scan == << scan_root, total_files, processed_files, files_info, directories_processed >>
indexes == << hard_drive_files, server_files >>
report == << server_files_by_name, sorted_items, missing_files, size_mismatch_files,
             identical_files, missing_file_details, mismatch_file_details >>
vars == << env, pc, exit_status, stdout, stderr, pos, scan, indexes, report >>

\* one printed line
Line(tag, root, path, size, cands) ==
    [tag |-> tag, root |-> root, path |-> path, size |-> size, cands |-> cands]

(* ------------------------------- Init ---------------------------------- *)

\* a listing in ascending order of its paths
Ascending(t) == \A i, j \in 1..Len(t) : i < j => StrLess(t[i].path, t[j].path)

\* two valid roots holding regular, readable files only; the hard drive is
\* listed in any order, the server directory in ascending order
ReconcileInputs ==
    /\ args = [kind |-> "ok", verbose |-> FALSE]
    /\ root_kind = [r \in Roots |-> "dir"]
    /\ tree \in [Roots -> Listings(RegularEntries)]
    /\ Ascending(tree["server"])

\* a source root holding entries of every kind, against an empty target
IndexerInputs ==
    /\ args \in [kind : {"ok"}, verbose : BOOLEAN]
    /\ root_kind = [r \in Roots |-> "dir"]
    /\ \E t \in Listings(AnyEntries) : tree = [r \in Roots |-> IF r = "hd" THEN t ELSE << >>]

\* every command line and every kind of root, over empty trees
MainInputs ==
    /\ args \in [kind : CommandLines, verbose : BOOLEAN]
    /\ root_kind \in [Roots -> {"missing", "file", "dir"}]
    /\ tree = [r \in Roots |-> << >>]

Init ==
    /\ (MainInputs \/ IndexerInputs \/ ReconcileInputs)
    /\ pc = "parse_args"
    /\ exit_status = << >>
    /\ stdout = << >>
    /\ stderr = << >>
    /\ scan_root = "none"
    /\ pos = 0
    /\ total_files = 0
    /\ processed_files = 0
    /\ files_info = << >>
    /\ directories_processed = {}
    /\ hard_drive_files = << >>
    /\ server_files = << >>
    /\ server_files_by_name = << >>
    /\ sorted_items = << >>
    /\ missing_files = 0
    /\ size_mismatch_files = 0
    /\ identical_files = 0
    /\ missing_file_details = << >>
    /\ mismatch_file_details = << >>

(* ------------------------------ __main__ -------------------------------- *)

\* sys.exit(n), and the end of the script (n = 0)
Exit(n) ==
    /\ pc' = "exited"
    /\ exit_status' = << n >>

\* parser.parse_args(): argparse prints the usage and exits with status 2 on
\* a usage error, prints the help and exits with status 0 on -h/--help
ParseArgs ==
    /\ pc = "parse_args"
    /\ \/ /\ args.kind = "bad"
          /\ stderr' = Append(stderr, "usage")
          /\ Exit(2)
          /\ UNCHANGED stdout
       \/ /\ args.kind = "help"
          /\ stdout' = Append(stdout, Line("HELP", "none", << >>, 0, << >>))
          /\ Exit(0)
          /\ UNCHANGED stderr
       \/ /\ args.kind = "ok"
          /\ pc' = "validate_exist"
          /\ UNCHANGED << exit_status, stdout, stderr >>
    /\ UNCHANGED << env, pos, scan, indexes, report >>

\* a variant of paths_exist that is content with one existing path
paths_exist_either(hd, server) == exists(hd) \/ exists(server)

\* the condition under which the existence check lets the run go on
paths_exist(hd, server) == exists(hd) /\ exists(server)

\* the condition under which the directory check lets the run go on
paths_are_directories(hd, server) == isdir(hd) /\ isdir(server)

\* "Validate paths exist"
ValidatePathsExist ==
    /\ pc = "validate_exist"
    /\ IF ~ paths_exist(root_kind["hd"], root_kind["server"])
       THEN /\ stdout' = Append(stdout,
                  IF ~ exists(root_kind["hd"])
                  THEN Line("ERROR_NOT_EXIST", "hd", << >>, 0, << >>)
                  ELSE IF ~ exists(root_kind["server"])
                  THEN Line("ERROR_NOT_EXIST", "server", << >>, 0, << >>)
                  ELSE Line("ERROR_NOT_EXIST", "both", << >>, 0, << >>))
            /\ Exit(1)
       ELSE /\ pc' = "validate_isdir"
            /\ UNCHANGED << exit_status, stdout >>
    /\ UNCHANGED << env, stderr, pos, scan, indexes, report >>

\* "Validate paths are directories"
ValidatePathsAreDirectories ==
    /\ pc = "validate_isdir"
    /\ IF ~ paths_are_directories(root_kind["hd"], root_kind["server"])
       THEN /\ stdout' = Append(stdout,
                  IF ~ isdir(root_kind["hd"])
                  THEN Line("ERROR_NOT_DIR", "hd", << >>, 0, << >>)
                  ELSE IF ~ isdir(root_kind["server"])
                  THEN Line("ERROR_NOT_DIR", "server", << >>, 0, << >>)
                  ELSE Line("ERROR_NOT_DIR", "both", << >>, 0, << >>))
            /\ Exit(1)
       ELSE /\ pc' = "compare"
            /\ UNCHANGED << exit_status, stdout >>
    /\ UNCHANGED << env, stderr, pos, scan, indexes, report >>

\* a variant of except_clause whose PermissionError clause prints and does
\* not exit, so that the script ends with status 0
except_clause_permission_falls_through(exc) ==
    IF exc = "PermissionError" THEN [tag |-> "ERROR_PERMISSION", status |-> 0]
    ELSE IF exc = "KeyboardInterrupt" THEN [tag |-> "CANCELLED", status |-> 1]
    ELSE [tag |-> "ERROR_UNEXPECTED", status |-> 1]

\* a variant of except_clause whose KeyboardInterrupt clause prints and
\* does not exit, so that the script ends with status 0
except_clause_interrupt_falls_through(exc) ==
    IF exc = "PermissionError" THEN [tag |-> "ERROR_PERMISSION", status |-> 1]
    ELSE IF exc = "KeyboardInterrupt" THEN [tag |-> "CANCELLED", status |-> 0]
    ELSE [tag |-> "ERROR_UNEXPECTED", status |-> 1]

\* the except clauses around compare_directories: the message printed and
\* the status the process exits with
except_clause(exc) ==
    IF exc = "PermissionError" THEN [tag |-> "ERROR_PERMISSION", status |-> 1]
    ELSE IF exc = "KeyboardInterrupt" THEN [tag |-> "CANCELLED", status |-> 1]
    ELSE [tag |-> "ERROR_UNEXPECTED", status |-> 1]

\* an exception leaves compare_directories and reaches its except clause;
\* out is what had been printed when it was raised
Raise(exc, out) ==
    /\ stdout' = Append(out, Line(except_clause(exc).tag, "none", << >>, 0, << >>))
    /\ Exit(except_clause(exc).status)

(* ----------------------- get_all_files_recursive ------------------------ *)

\* the items the two rglob loops of the running scan go through
Items == rglob(tree[scan_root])

\* entry of get_all_files_recursive(root), up to the first rglob loop;
\* out is what has been printed so far
ScanBegin(r, out) ==
    /\ scan_root' = r
    /\ files_info' = << >>
    /\ directories_processed' = {}
    /\ total_files' = 0
    /\ processed_files' = 0
    /\ pos' = 1
    /\ pc' = "count"
    /\ stdout' = Append(out, Line("SCANNING", r, << >>, 0, << >>))

\* first pass, one item: count the files for the progress bar; an
\* exception of is_file() is not handled here
CountStep ==
    /\ pc = "count"
    /\ pos <= Len(Items)
    /\ \E o \in StatOutcomes(Items[pos]) :
         LET f == is_file(Items[pos], o) IN
         IF f.raised # "none"
         THEN /\ Raise(f.raised, stdout)
              /\ UNCHANGED << pos, total_files >>
         ELSE /\ total_files' = total_files + (IF f.value THEN 1 ELSE 0)
              /\ pos' = pos + 1
              /\ stdout' = IF f.value /\ ((total_files + 1) % 100 = 0 \/ total_files + 1 < 100)
                           THEN Append(stdout, Line("DISCOVERING", scan_root, << >>,
                                                    total_files + 1, << >>))
                           ELSE stdout
              /\ UNCHANGED << pc, exit_status >>
    /\ UNCHANGED << env, stderr, scan_root, processed_files, files_info,
                    directories_processed, indexes, report >>

\* end of the first pass: the total is printed, the progress bar is set up
CountDone ==
    /\ pc = "count"
    /\ pos > Len(Items)
    /\ stdout' = Append(stdout, Line("FOUND_TOTAL", scan_root, << >>, total_files, << >>))
    /\ processed_files' = 0
    /\ pos' = 1
    /\ pc' = "scan"
    /\ UNCHANGED << env, exit_status, stderr, scan_root, total_files, files_info,
                    directories_processed, indexes, report >>

\* update_progress_bar(current, total): the number of filled cells
filled_length(current, total) == (bar_width * current) \div total

\* the progress bar line, printed when not verbose and total is not 0
ProgressBar(out, current, total) ==
    IF args.verbose \/ total = 0 THEN out
    ELSE Append(out, Line("PROGRESS", scan_root, << >>, filled_length(current, total),
                          << current, total >>))

\* second pass, one item
ScanStep ==
    /\ pc = "scan"
    /\ pos <= Len(Items)
    /\ LET item == Items[pos] IN
       \E o1 \in StatOutcomes(item) :
         LET f == is_file(item, o1) IN
         IF f.raised # "none"
         THEN \* is_file() stands outside the try statement
              /\ Raise(f.raised, stdout)
              /\ UNCHANGED << pos, processed_files, files_info, directories_processed >>
         ELSE IF f.value
         THEN \E o2 \in StatOutcomes(item) :
              /\ IF o2 = "ok"
                 THEN /\ files_info' = DictSet(files_info, item.path, item.size)
                      /\ directories_processed' =
                            IF parent(item.path) # << >>
                            THEN directories_processed \cup { parent(item.path) }
                            ELSE directories_processed
                      /\ stdout' = ProgressBar(
                            IF args.verbose
                            THEN Append(stdout, Line("FOUND_FILE", scan_root, item.path,
                                                     item.size, << >>))
                            ELSE stdout, processed_files + 1, total_files)
                 ELSE \* except (OSError, PermissionError)
                      /\ stdout' = ProgressBar(
                            IF args.verbose
                            THEN Append(stdout, Line("WARNING", scan_root, item.path,
                                                     0, << >>))
                            ELSE stdout, processed_files + 1, total_files)
                      /\ UNCHANGED << files_info, directories_processed >>
              /\ processed_files' = processed_files + 1
              /\ pos' = pos + 1
              /\ UNCHANGED << pc, exit_status >>
         ELSE \E o3 \in StatOutcomes(item) :
              LET d == is_dir(item, o3) IN
              IF d.raised # "none"
              THEN /\ Raise(d.raised, stdout)
                   /\ UNCHANGED << pos, processed_files, files_info, directories_processed >>
              ELSE /\ directories_processed' =
                         IF d.value THEN directories_processed \cup { item.path }
                         ELSE directories_processed
                   /\ stdout' = IF d.value /\ args.verbose
                                THEN Append(stdout, Line("PROCESSING_DIR", scan_root,
                                                         item.path, 0, << >>))
                                ELSE stdout
                   /\ pos' = pos + 1
                   /\ UNCHANGED << pc, exit_status, processed_files, files_info >>
    /\ UNCHANGED << env, stderr, scan_root, total_files, indexes, report >>

\* str.startswith
startswith(s, prefix) ==
    Len(prefix) <= Len(s) /\ SubSeq(s, 1, Len(prefix)) = prefix

\* the subdirectory lines of the verbose summary: sorted(directories_processed),
\* each with the number of indexed files below it
RECURSIVE SubdirLines(_)
SubdirLines(dirs) ==
    IF dirs = {} THEN << >>
    ELSE LET least == CHOOSE d \in dirs : \A e \in dirs \ {d} : StrLess(d, e)
             count == Cardinality({ i \in 1..Len(files_info) :
                                      startswith(files_info[i][1], Append(least, Sep)) })
         IN  << Line("SUBDIR", scan_root, least, count, << >>) >>
             \o SubdirLines(dirs \ {least})

\* what the end of get_all_files_recursive prints
ScanSummary ==
    Append(stdout, Line("FOUND_SUMMARY", scan_root, << >>, Len(files_info),
                        << Cardinality(directories_processed) >>))
    \o (IF args.verbose THEN SubdirLines(directories_processed) ELSE << >>)

\* the scan of the hard drive returns its index; the scan of the server
\* directory starts
ReturnHardDriveFiles ==
    /\ pc = "scan"
    /\ pos > Len(Items)
    /\ scan_root = "hd"
    /\ hard_drive_files' = files_info
    /\ ScanBegin("server", ScanSummary)
    /\ UNCHANGED << env, exit_status, stderr, server_files, report >>

\* the scan of the server directory returns its index
ReturnServerFiles ==
    /\ pc = "scan"
    /\ pos > Len(Items)
    /\ scan_root = "server"
    /\ server_files' = files_info
    /\ stdout' = ScanSummary
    /\ pc' = "build_index"
    /\ UNCHANGED << env, exit_status, stderr, pos, scan, hard_drive_files, report >>

(* -------------------------- compare_directories ------------------------- *)

\* the header, then the scan of the hard drive starts
CompareStart ==
    /\ pc = "compare"
    /\ ScanBegin("hd", Append(stdout, Line("COMPARING", "none", << >>, 0, << >>)))
    /\ UNCHANGED << env, exit_status, stderr, indexes, report >>

\* a variant of name_index in which a later entry of a name replaces the
\* earlier one
RECURSIVE name_index_overwriting(_)
name_index_overwriting(items) ==
    IF items = << >> THEN << >>
    ELSE LET before   == name_index_overwriting(SubSeq(items, 1, Len(items) - 1))
             entry    == items[Len(items)]
             filename == basename(entry[1])
         IN  [k \in DOMAIN before \cup {filename} |->
                 IF k = filename THEN << entry >> ELSE before[k]]

\* server_files_by_name: filename -> [(path, size), ...], the entries of
\* each name in the order of the server index
RECURSIVE name_index(_)
name_index(items) ==
    IF items = << >> THEN << >>
    ELSE LET before   == name_index(SubSeq(items, 1, Len(items) - 1))
             entry    == items[Len(items)]
             filename == basename(entry[1])
         IN  IF filename \in DOMAIN before
             THEN [before EXCEPT ![filename] = Append(@, entry)]
             ELSE [k \in DOMAIN before \cup {filename} |->
                     IF k = filename THEN << entry >> ELSE before[k]]

\* the lookup is built, the statistics are reset, the loop over
\* sorted(hard_drive_files.items()) starts
BuildNameIndex ==
    /\ pc = "build_index"
    /\ stdout' = Append(stdout, Line("COMPARING_FILES", "none", << >>, 0, << >>))
    /\ server_files_by_name' = name_index(server_files)
    /\ missing_files' = 0
    /\ size_mismatch_files' = 0
    /\ identical_files' = 0
    /\ missing_file_details' = << >>
    /\ mismatch_file_details' = << >>
    /\ sorted_items' = sorted(hard_drive_files)
    /\ pos' = 1
    /\ pc' = "reconcile"
    /\ UNCHANGED << env, exit_status, stderr, scan, indexes >>

\* a variant of matching_files that looks at the first entry of the name only
matching_files_first_only(entries, hard_drive_size) ==
    IF entries[1][2] = hard_drive_size THEN << entries[1] >> ELSE << >>

\* the entries of one name whose size is the hard drive file's
matching_files(entries, hard_drive_size) ==
    LET SameSize(entry) == entry[2] = hard_drive_size
    IN  SelectSeq(entries, SameSize)

\* a variant of classify that looks the name up with a default of no
\* entries, so that an unknown name falls through to the size comparison
classify_with_default(filename, hard_drive_size, by_name) ==
    LET entries == IF filename \in DOMAIN by_name THEN by_name[filename] ELSE << >>
    IN  IF matching_files(entries, hard_drive_size) # << >>
        THEN [outcome |-> "IDENTICAL",
              entries |-> matching_files(entries, hard_drive_size)]
        ELSE [outcome |-> "SIZE_DIFF", entries |-> entries]

\* the branch the loop body takes for one hard drive file, with the server
\* entries it reports
classify(filename, hard_drive_size, by_name) ==
    IF filename \notin DOMAIN by_name
    THEN [outcome |-> "MISSING", entries |-> << >>]
    ELSE IF matching_files(by_name[filename], hard_drive_size) # << >>
    THEN [outcome |-> "IDENTICAL",
          entries |-> matching_files(by_name[filename], hard_drive_size)]
    ELSE [outcome |-> "SIZE_DIFF", entries |-> by_name[filename]]

\* a variant of identical_increment that counts every matching entry
identical_increment_per_match(entries) == Len(entries)

\* what one classification adds to identical_files
identical_increment(entries) == 1

\* the loop body, for one hard drive file
ReconcileStep ==
    /\ pc = "reconcile"
    /\ pos <= Len(sorted_items)
    /\ LET file_path       == sorted_items[pos][1]
           hard_drive_size == sorted_items[pos][2]
           filename        == basename(file_path)
           c               == classify(filename, hard_drive_size, server_files_by_name)
       IN  /\ stdout' = stdout \o << Line("CHECKING", "hd", file_path, 0, << >>),
                                     Line(c.outcome, "hd", file_path, hard_drive_size,
                                          c.entries) >>
           /\ missing_files' = missing_files + (IF c.outcome = "MISSING" THEN 1 ELSE 0)
           /\ missing_file_details' =
                 IF c.outcome = "MISSING"
                 THEN Append(missing_file_details, << file_path, hard_drive_size >>)
                 ELSE missing_file_details
           /\ identical_files' = identical_files +
                 (IF c.outcome = "IDENTICAL" THEN identical_increment(c.entries) ELSE 0)
           /\ size_mismatch_files' =
                 size_mismatch_files + (IF c.outcome = "SIZE_DIFF" THEN 1 ELSE 0)
           /\ mismatch_file_details' =
                 IF c.outcome = "SIZE_DIFF"
                 THEN Append(mismatch_file_details,
                             << file_path, hard_drive_size, c.entries >>)
                 ELSE mismatch_file_details
    /\ pos' = pos + 1
    /\ UNCHANGED << env, pc, exit_status, stderr, scan, indexes,
                    server_files_by_name, sorted_items >>

\* "Print summary": the five counts
PrintSummary ==
    /\ pc = "reconcile"
    /\ pos > Len(sorted_items)
    /\ stdout' = Append(stdout, Line("SUMMARY", "none", << >>, 0,
                        << Len(hard_drive_files), missing_files, size_mismatch_files,
                           identical_files, Len(server_files) >>))
    /\ pc' = "details"
    /\ UNCHANGED << env, exit_status, stderr, pos, scan, indexes, report >>

\* the lines of one detail list
DetailLines(tag, details) ==
    [ i \in 1..Len(details) |->
        Line(tag, "hd", details[i][1], details[i][2],
             IF Len(details[i]) = 3 THEN details[i][3] ELSE << >>) ]

\* the missing and size mismatch details; compare_directories returns and
\* the script ends
PrintDetails ==
    /\ pc = "details"
    /\ stdout' = stdout
          \o (IF missing_files > 0
              THEN DetailLines("MISSING_DETAIL", missing_file_details) ELSE << >>)
          \o (IF size_mismatch_files > 0
              THEN DetailLines("SIZE_DIFF_DETAIL", mismatch_file_details) ELSE << >>)
    /\ Exit(0)
    /\ UNCHANGED << env, stderr, pos, scan, indexes, report >>

(* ------------------------------ interrupt ------------------------------- *)

\* the places of the script inside the try statement
InTry == {"compare", "count", "scan", "build_index", "reconcile", "details"}

\* SIGINT inside the try statement: KeyboardInterrupt reaches its except clause
Interrupt ==
    /\ pc \in InTry
    /\ Raise("KeyboardInterrupt", stdout)
    /\ UNCHANGED << env, stderr, pos, scan, indexes, report >>

\* SIGINT before the try statement: nothing catches KeyboardInterrupt; the
\* interpreter prints the traceback and ends with status 1 or, from
\* CPython 3.8 on, by SIGINT (130 to a shell)
InterruptUncaught ==
    /\ pc \in {"parse_args", "validate_exist", "validate_isdir"}
    /\ stderr' = Append(stderr, "KeyboardInterrupt")
    /\ \E n \in {1, 130} : Exit(n)
    /\ UNCHANGED << env, stdout, pos, scan, indexes, report >>

(* ---------------------------- specification ----------------------------- *)

Next ==
    \/ ParseArgs
    \/ ValidatePathsExist
    \/ ValidatePathsAreDirectories
    \/ CompareStart
    \/ CountStep
    \/ CountDone
    \/ ScanStep
    \/ ReturnHardDriveFiles
    \/ ReturnServerFiles
    \/ BuildNameIndex
    \/ ReconcileStep
    \/ PrintSummary
    \/ PrintDetails
    \/ Interrupt
    \/ InterruptUncaught

Spec == Init /\ [][Next]_vars

(* ------------------------ vocabulary of the claims ---------------------- *)

\* the file name of a path: the path once every directory part is dropped
RECURSIVE FileName(_)
FileName(p) ==
    IF \A i \in 1..Len(p) : p[i] # 47 THEN p ELSE FileName(Tail(p))

\* p comes before q in the lexicographic order of strings
RECURSIVE PathBefore(_, _)
PathBefore(p, q) ==
    IF q = << >> THEN FALSE
    ELSE IF p = << >> THEN TRUE
    ELSE IF Head(p) # Head(q) THEN Head(p) < Head(q)
    ELSE PathBefore(Tail(p), Tail(q))

\* the elements of a sequence
Range(s) == { s[i] : i \in 1..Len(s) }

\* the positions of the lines of an output with one of the tags
LinesTaggedIn(out, tags) == { i \in 1..Len(out) : out[i].tag \in tags }

\* the positions of the printed lines with one of the tags
LinesTagged(tags) == LinesTaggedIn(stdout, tags)

OutcomeTags == {"MISSING", "IDENTICAL", "SIZE_DIFF"}

\* the positions of the classification lines printed for a source path
OutcomeLines(path) == { i \in LinesTagged(OutcomeTags) : stdout[i].path = path }

\* the source files the reconciliation loop has been through
Classified == { f \in Range(hard_drive_files) :
                  \E i \in LinesTagged({"CHECKING"}) : stdout[i].path = f[1] }

\* the target entries with the file name of source file f
SameName(f) == { t \in Range(server_files) : FileName(t[1]) = FileName(f[1]) }

\* the positions at which a detail list speaks of source file f
DetailsOf(details, f) == { i \in 1..Len(details) : details[i][1] = f[1] }

\* f has the one outcome tag and no other
OnlyOutcome(f, tag) ==
    /\ Cardinality(OutcomeLines(f[1])) = 1
    /\ \A i \in OutcomeLines(f[1]) : stdout[i].tag = tag /\ stdout[i].size = f[2]

(* -------------------------------- claims -------------------------------- *)

\* C1: a classified source file for which the target index holds an entry
\* of the same file name and the same size, at whatever relative path, is
\* IDENTICAL: that is its one outcome, identical_files counts it, and no
\* detail list names it.
C1_SameNameAndSizeIsIdentical ==
    /\ \A f \in Classified :
         (\E t \in SameName(f) : t[2] = f[2]) =>
            /\ OnlyOutcome(f, "IDENTICAL")
            /\ DetailsOf(missing_file_details, f) = {}
            /\ DetailsOf(mismatch_file_details, f) = {}
    /\ identical_files = Cardinality(LinesTagged({"IDENTICAL"}))

\* a file found IDENTICAL through an entry that moved to another directory,
\* while the entry at its own path has another size
C1_Witness ==
    \E f \in Classified :
        /\ \E t \in SameName(f) : t[2] = f[2] /\ t[1] # f[1]
        /\ \E t \in SameName(f) : t[2] # f[2] /\ t[1] = f[1]
        /\ identical_files >= 1

\* C2: a classified source file whose file name is the file name of no
\* target entry is Missing: that is its one outcome, missing_files counts it
\* once, the missing detail list holds (path, size) once, and it is neither
\* identical nor a size mismatch.
C2_UnknownNameIsMissing ==
    /\ \A f \in Classified :
         SameName(f) = {} =>
            /\ OnlyOutcome(f, "MISSING")
            /\ Cardinality({ i \in 1..Len(missing_file_details) :
                               missing_file_details[i] = f }) = 1
            /\ DetailsOf(mismatch_file_details, f) = {}
    /\ missing_files = Len(missing_file_details)
    /\ missing_files = Cardinality(LinesTagged({"MISSING"}))

\* a file reported Missing although the target holds files of other names
C2_Witness ==
    \E f \in Classified :
        /\ SameName(f) = {}
        /\ server_files # << >>
        /\ missing_files >= 1

\* C3: a classified source file whose file name occurs in the target index,
\* never with its size, is a SizeMismatch: that is its one outcome, and the
\* candidates recorded for it are all the target entries of that file name,
\* each once, and no other entry.
C3_NoSizeMatchIsSizeMismatch ==
    /\ \A f \in Classified :
         (SameName(f) # {} /\ \A t \in SameName(f) : t[2] # f[2]) =>
            /\ OnlyOutcome(f, "SIZE_DIFF")
            /\ DetailsOf(missing_file_details, f) = {}
            /\ Cardinality(DetailsOf(mismatch_file_details, f)) = 1
            /\ \A i \in DetailsOf(mismatch_file_details, f) :
                  /\ mismatch_file_details[i][2] = f[2]
                  /\ Range(mismatch_file_details[i][3]) = SameName(f)
                  /\ Len(mismatch_file_details[i][3]) = Cardinality(SameName(f))
            /\ \A i \in OutcomeLines(f[1]) : Range(stdout[i].cands) = SameName(f)
    /\ size_mismatch_files = Len(mismatch_file_details)
    /\ size_mismatch_files = Cardinality(LinesTagged({"SIZE_DIFF"}))

\* a size mismatch with two candidates, beside a target entry of another name
C3_Witness ==
    \E f \in Classified :
        /\ Cardinality(SameName(f)) >= 2
        /\ \A t \in SameName(f) : t[2] # f[2]
        /\ Range(server_files) # SameName(f)
        /\ size_mismatch_files >= 1

\* C4: every source file gets one outcome: the three counts add up to the
\* number of source files the loop has been through, and to the number of
\* entries of the source index once the summary is printed.
C4_CountsAddUp ==
    /\ missing_files + size_mismatch_files + identical_files
          = Cardinality(LinesTagged({"CHECKING"}))
    /\ pc = "reconcile" =>
          missing_files + size_mismatch_files + identical_files = pos - 1
    /\ \A i \in LinesTagged({"SUMMARY"}) :
          /\ stdout[i].cands[2] + stdout[i].cands[3] + stdout[i].cands[4]
                = stdout[i].cands[1]
          /\ stdout[i].cands[1] = Len(hard_drive_files)
          /\ missing_files + size_mismatch_files + identical_files
                = Len(hard_drive_files)

\* a printed summary in which each of the three counts is 1
C4_Witness ==
    /\ LinesTagged({"SUMMARY"}) # {}
    /\ missing_files = 1
    /\ size_mismatch_files = 1
    /\ identical_files = 1

\* some root is missing or is no directory
BadRoot == \E r \in Roots : root_kind[r] # "dir"

\* C5: with a root that does not exist or is no directory, no scan is ever
\* started, and the run (when the command line parses and no interrupt ends
\* it first) prints one error that names a failing root and the check it
\* fails, and exits with status 1.
C5_PathsCheckedBeforeScanning ==
    (args.kind = "ok" /\ BadRoot) =>
        /\ LinesTagged({"SCANNING"}) = {}
        /\ scan_root = "none"
        /\ pc \in {"parse_args", "validate_exist", "validate_isdir", "exited"}
        /\ (pc = "exited" /\ stderr = << >>) =>
              /\ exit_status = << 1 >>
              /\ Len(stdout) = 1
              /\ stdout[1].root \in Roots
              /\ \/ stdout[1].tag = "ERROR_NOT_EXIST" /\ root_kind[stdout[1].root] = "missing"
                 \/ stdout[1].tag = "ERROR_NOT_DIR" /\ root_kind[stdout[1].root] = "file"

\* the run ended on "server path is not a directory", the hard drive path
\* being a directory
C5_Witness ==
    /\ pc = "exited"
    /\ root_kind["hd"] = "dir"
    /\ root_kind["server"] = "file"
    /\ stdout = << Line("ERROR_NOT_DIR", "server", << >>, 0, << >>) >>
    /\ exit_status = << 1 >>

\* the ways a run ends
Completed ==
    /\ pc = "exited"
    /\ stdout # << >>
    /\ stdout[Len(stdout)].tag \in {"SUMMARY", "MISSING_DETAIL", "SIZE_DIFF_DETAIL"}
HelpShown == pc = "exited" /\ LinesTagged({"HELP"}) # {}
UsageError == pc = "exited" /\ stderr = << "usage" >>
UncaughtInterrupt == pc = "exited" /\ stderr = << "KeyboardInterrupt" >>
EndedOnError ==
    /\ pc = "exited"
    /\ stdout # << >>
    /\ stdout[Len(stdout)].tag \in {"ERROR_NOT_EXIST", "ERROR_NOT_DIR", "ERROR_PERMISSION",
                                    "CANCELLED", "ERROR_UNEXPECTED"}

\* C6 as stated: the exit status is 0 exactly when a comparison ran to
\* completion, and 1 in every other case in which the run ends (invalid
\* arguments among them); no run ends with another status.
C6_StatusIsZeroOrOne ==
    pc = "exited" =>
        /\ exit_status \in { << 0 >>, << 1 >> }
        /\ exit_status = << 0 >> <=> Completed

\* C6 amended: the exit status is 0 exactly when a comparison ran to
\* completion or the help was asked for; it is 2 exactly when argparse
\* rejects the command line; it is 1 when the run ends on an invalid path,
\* on a PermissionError, a caught interrupt or any other exception of
\* compare_directories; an interrupt before the try statement is not caught
\* and leaves the status to the interpreter (1 or 130).
C6_StatusByEnding ==
    pc = "exited" =>
        /\ exit_status = << 0 >> <=> (Completed \/ HelpShown)
        /\ exit_status = << 2 >> <=> UsageError
        /\ UncaughtInterrupt => exit_status \in { << 1 >>, << 130 >> }
        /\ EndedOnError => exit_status = << 1 >>
        /\ Completed \/ HelpShown \/ UsageError \/ UncaughtInterrupt \/ EndedOnError
        /\ HelpShown => LinesTagged({"SCANNING"}) = {}

\* argparse rejected the command line and the run ended with status 2
C6_Witness ==
    /\ UsageError
    /\ args.kind = "bad"
    /\ stdout = << >>
    /\ exit_status = << 2 >>

\* the tags of the report: classification lines, summary, detail lists
ReportTags == OutcomeTags \cup {"CHECKING", "SUMMARY", "MISSING_DETAIL", "SIZE_DIFF_DETAIL"}

\* an interrupt ends the run during a scan or during the reconciliation loop
InterruptedInScanOrLoop ==
    /\ pc \in {"count", "scan", "reconcile"}
    /\ pc' = "exited"
    /\ stdout'[Len(stdout')].tag = "CANCELLED"

\* C7 as stated: an interrupt during the source scan, the target scan or
\* the reconciliation loop ends the run with a status other than 0 and with
\* no classification or summary output printed.
C7_InterruptLeavesNoReport ==
    [][ InterruptedInScanOrLoop =>
          /\ exit_status' # << 0 >>
          /\ LinesTaggedIn(stdout', ReportTags) = {} ]_vars

\* C7 amended: an interrupt during the source scan, the target scan or the
\* reconciliation loop ends the run at once with status 1; no summary and
\* no detail list has been printed, and the classification lines printed
\* are those of the source files the loop had been through, none during a
\* scan.
C7_InterruptLeavesNoSummary ==
    [][ InterruptedInScanOrLoop =>
          /\ exit_status' = << 1 >>
          /\ stdout' = Append(stdout, Line("CANCELLED", "none", << >>, 0, << >>))
          /\ LinesTaggedIn(stdout', {"SUMMARY", "MISSING_DETAIL", "SIZE_DIFF_DETAIL"}) = {}
          /\ Cardinality(LinesTaggedIn(stdout', OutcomeTags))
                = Cardinality(LinesTaggedIn(stdout', {"CHECKING"}))
          /\ Cardinality(LinesTaggedIn(stdout', OutcomeTags))
                = (IF pc = "reconcile" THEN pos - 1 ELSE 0) ]_vars

\* a run interrupted in the loop after one of its three source files was
\* classified
C7_Witness ==
    /\ EndedOnError
    /\ stdout[Len(stdout)].tag = "CANCELLED"
    /\ exit_status = << 1 >>
    /\ Len(sorted_items) = 3
    /\ Cardinality(LinesTagged(OutcomeTags)) = 1
    /\ LinesTagged({"SUMMARY"}) = {}

\* the index a finished scan of root r returned
IndexOf(r) == IF r = "hd" THEN hard_drive_files ELSE server_files

\* the scan of root r has returned
ScanReturned(r) == \E i \in LinesTagged({"FOUND_SUMMARY"}) : stdout[i].root = r

\* C8 as stated: a file whose access fails is skipped: no scan is aborted by
\* it, it is absent from the returned index, and every accessible regular
\* file of the tree is in the returned index with its size.
C8_InaccessibleFileIsSkipped ==
    /\ LinesTagged({"ERROR_PERMISSION", "ERROR_UNEXPECTED"}) = {}
    /\ \A r \in Roots : ScanReturned(r) =>
          \A e \in Range(tree[r]) :
              /\ (e.kind = "file" /\ e.acc = "ok") =>
                    << e.path, e.size >> \in Range(IndexOf(r))
              /\ (e.kind = "file" /\ e.acc = "EACCES") =>
                    e.path \notin DictKeys(IndexOf(r))

\* C9 as stated: the index holds regular files only; a symbolic link, a
\* socket, a directory or another non-regular entry is never recorded.
C9_IndexHoldsRegularFilesOnly ==
    /\ \A r \in Roots : \A item \in Range(IndexOf(r)) :
          \E e \in Range(tree[r]) : e.path = item[1] /\ e.kind = "file"
    /\ scan_root \in Roots =>
          \A item \in Range(files_info) :
              \E e \in Range(tree[scan_root]) : e.path = item[1] /\ e.kind = "file"

\* the paths of a sequence stand in ascending order
InPathOrder(paths) ==
    \A i, j \in 1..Len(paths) : i < j => PathBefore(paths[i], paths[j])

\* the paths of the printed lines of a tag, in the order printed
RECURSIVE PathsPrinted(_, _)
PathsPrinted(out, tag) ==
    IF out = << >> THEN << >>
    ELSE (IF Head(out).tag = tag THEN << Head(out).path >> ELSE << >>)
         \o PathsPrinted(Tail(out), tag)

\* the first components of the items of a list
PathsOf(details) == [ i \in 1..Len(details) |-> details[i][1] ]

\* C10: source files are classified in ascending order of their relative
\* path, and the missing and the size mismatch detail lists, kept and
\* printed, are in that order, whatever the order of discovery.
C10_ReportInPathOrder ==
    /\ InPathOrder(PathsPrinted(stdout, "CHECKING"))
    /\ InPathOrder(PathsOf(missing_file_details))
    /\ InPathOrder(PathsOf(mismatch_file_details))
    /\ InPathOrder(PathsPrinted(stdout, "MISSING_DETAIL"))
    /\ InPathOrder(PathsPrinted(stdout, "SIZE_DIFF_DETAIL"))

\* a printed report with two missing files that the indexer discovered in
\* descending order of their paths
C10_Witness ==
    /\ Completed
    /\ \E i, j \in 1..Len(hard_drive_files) :
          /\ i < j
          /\ PathBefore(hard_drive_files[j][1], hard_drive_files[i][1])
          /\ \E m, n \in LinesTagged({"MISSING_DETAIL"}) :
                /\ m < n
                /\ stdout[m].path = hard_drive_files[j][1]
                /\ stdout[n].path = hard_drive_files[i][1]

====
